---- MODULE Spec2Model ----
(***************************************************************************)
(* Department / employee tree service (handlers.go, models.go and the      *)
(* schema of migrations/00001_init.sql).                                   *)
(*                                                                         *)
(* The state is the content of the two tables and of their SERIAL          *)
(* sequences, the outcome of the last request, and the position and locals *)
(* of the calls that are under way when their steps are followed one store *)
(* call at a time (inflight).  Every HTTP handler is                       *)
(* an operator from (store, request, injected store failure) to (response, *)
(* store); one action per handler applies it.  Strings are sequences of    *)
(* one-character strings, a Go pointer to int or string is the empty       *)
(* sequence (nil) or a one-element sequence.                               *)
(***************************************************************************)
EXTENDS Integers, Sequences, FiniteSets, TLC

VARIABLES departments, employees, deptSeq, empSeq, last, inflight

vars == <<departments, employees, deptSeq, empSeq, last, inflight>>

(***************************************************************************)
(* Bounds of the model.                                                    *)
(***************************************************************************)
\* number of department rows ever inserted (ids 1..MaxDepts)
MaxDepts == 3
\* number of employee rows ever inserted (ids 1..MaxEmps)
MaxEmps == 1

(***************************************************************************)
(* Program constants.                                                      *)
(***************************************************************************)
\* models.go: len(d.Name) > 200, len(e.FullName) > 200, len(e.Position) > 200
MaxNameLen == 200

(***************************************************************************)
(* Pointers and strings.                                                   *)
(***************************************************************************)
Nil == <<>>

Ptr(v) == <<v>>

Deref(p) == p[1]

\* unicode.IsSpace restricted to the characters the inputs use
IsSpace(c) == c \in {" ", "\t"}

RECURSIVE TrimLeft(_)
TrimLeft(s) ==
    IF s = <<>> THEN s
    ELSE IF IsSpace(Head(s)) THEN TrimLeft(Tail(s)) ELSE s

RECURSIVE TrimRight(_)
TrimRight(s) ==
    IF s = <<>> THEN s
    ELSE IF IsSpace(s[Len(s)]) THEN TrimRight(SubSeq(s, 1, Len(s) - 1)) ELSE s

\* strings.TrimSpace
TrimSpace(s) == TrimRight(TrimLeft(s))

DigitChars == <<"0", "1", "2", "3", "4", "5", "6", "7", "8", "9">>

DigitValue(c) == (CHOOSE i \in 1..10 : DigitChars[i] = c) - 1

IsDigit(c) == \E i \in 1..10 : DigitChars[i] = c

RECURSIVE DigitsValue(_)
DigitsValue(s) ==
    IF s = <<>> THEN 0
    ELSE 10 * DigitsValue(SubSeq(s, 1, Len(s) - 1)) + DigitValue(s[Len(s)])

\* strconv.Atoi: an optional sign followed by at least one decimal digit
Atoi(s) ==
    LET signed == s # <<>> /\ Head(s) \in {"+", "-"}
        digits == IF signed THEN Tail(s) ELSE s
    IN  IF digits = <<>> \/ \E i \in 1..Len(digits) : ~IsDigit(digits[i])
        THEN [ok |-> FALSE, val |-> 0]
        ELSE [ok |-> TRUE,
              val |-> IF signed /\ Head(s) = "-" THEN 0 - DigitsValue(digits)
                      ELSE DigitsValue(digits)]

RECURSIVE Itoa(_)
Itoa(n) ==
    IF n < 10 THEN <<DigitChars[n + 1]>>
    ELSE Itoa(n \div 10) \o <<DigitChars[(n % 10) + 1]>>

(***************************************************************************)
(* Errors.                                                                 *)
(***************************************************************************)
NoErr == "nil"

ErrRecordNotFound == "record not found"

ErrStore == "store failure"

ErrForeignKey == "violates foreign key constraint"

(***************************************************************************)
(* The store: the two tables of the migration and their id sequences.      *)
(***************************************************************************)
Store == [departments |-> departments, employees |-> employees,
          deptSeq |-> deptSeq, empSeq |-> empSeq]

DeptIds(D) == {d.id : d \in D}

\* db.First(&dept, id): SELECT ... WHERE id = ? LIMIT 1
First(D, id, failed) ==
    IF failed THEN [err |-> ErrStore, row |-> Nil]
    ELSE IF id \in DeptIds(D)
         THEN [err |-> NoErr, row |-> Ptr(CHOOSE d \in D : d.id = id)]
         ELSE [err |-> ErrRecordNotFound, row |-> Nil]

\* SQL "column = ?" with a nullable column and a nullable argument: the
\* comparison is unknown, hence no match, as soon as either side is NULL
SqlEqNullable(col, arg) == col # Nil /\ arg # Nil /\ Deref(col) = Deref(arg)

\* parent_id INT REFERENCES departments(id): NULL or an existing row
DeptForeignKeyOk(D, parent_id) == parent_id = Nil \/ Deref(parent_id) \in DeptIds(D)

\* department_id INT NOT NULL REFERENCES departments(id)
EmpForeignKeyOk(D, department_id) == department_id \in DeptIds(D)

\* mutant of CascadeClosure: the cascade stops at the direct children
CascadeClosureOneLevel(D, ids) ==
    ids \cup {d.id : d \in {x \in D : x.parent_id # Nil /\ Deref(x.parent_id) \in ids}}

\* ON DELETE CASCADE on departments.parent_id: the ids removed with `ids`
RECURSIVE CascadeClosure(_, _)
CascadeClosure(D, ids) ==
    LET more == {d.id : d \in {x \in D : x.parent_id # Nil /\ Deref(x.parent_id) \in ids}}
    IN  IF more \subseteq ids THEN ids ELSE CascadeClosure(D, ids \cup more)

\* mutant of SqlDeleteDepartment: employees.department_id without its
\* ON DELETE CASCADE rule
SqlDeleteDepartmentKeepEmployees(s, id) ==
    LET gone == IF id \in DeptIds(s.departments)
                THEN CascadeClosure(s.departments, {id}) ELSE {}
    IN  [s EXCEPT !.departments = {d \in s.departments : d.id \notin gone}]

\* mutant of SqlDeleteDepartment: the row alone goes, no cascade rule
SqlDeleteDepartmentNoCascade(s, id) ==
    [s EXCEPT !.departments = {d \in s.departments : d.id # id}]

\* DELETE FROM departments WHERE id = ?, with both cascade rules applied
SqlDeleteDepartment(s, id) ==
    LET gone == IF id \in DeptIds(s.departments)
                THEN CascadeClosure(s.departments, {id}) ELSE {}
    IN  [s EXCEPT !.departments = {d \in s.departments : d.id \notin gone},
                  !.employees = {e \in s.employees : e.department_id \notin gone}]

(***************************************************************************)
(* models.go: the GORM hooks.                                              *)
(***************************************************************************)
\* the zero values Department{} and Employee{}
ZeroDepartment == [id |-> 0, name |-> <<>>, parent_id |-> Nil]

ZeroEmployee == [id |-> 0, department_id |-> 0, full_name |-> <<>>, position |-> <<>>]

\* the sibling count of Department.BeforeSave:
\* WHERE name = ? AND parent_id = ? [AND id != ?]
SiblingCount(D, d) ==
    Cardinality({x \in D : /\ x.name = d.name
                           /\ SqlEqNullable(x.parent_id, d.parent_id)
                           /\ (d.id # 0 => x.id # d.id)})

\* (d *Department) BeforeSave: trims d.Name in place, then validates
DepartmentBeforeSave(D, d0, countFails) ==
    LET d == [d0 EXCEPT !.name = TrimSpace(d0.name)]
    IN  IF Len(d.name) = 0 THEN [err |-> "name cannot be empty", d |-> d]
        ELSE IF Len(d.name) > MaxNameLen THEN [err |-> "name too long (max 200)", d |-> d]
        ELSE IF countFails THEN [err |-> ErrStore, d |-> d]
        ELSE IF SiblingCount(D, d) > 0
             THEN [err |-> "department name must be unique within the same parent", d |-> d]
        ELSE [err |-> NoErr, d |-> d]

\* (e *Employee) BeforeSave
EmployeeBeforeSave(e0) ==
    LET e1 == [e0 EXCEPT !.full_name = TrimSpace(e0.full_name)]
        e2 == [e1 EXCEPT !.position = TrimSpace(e1.position)]
    IN  IF Len(e1.full_name) = 0 THEN [err |-> "full_name cannot be empty", e |-> e1]
        ELSE IF Len(e1.full_name) > MaxNameLen
             THEN [err |-> "full_name too long (max 200)", e |-> e1]
        ELSE IF Len(e2.position) = 0 THEN [err |-> "position cannot be empty", e |-> e2]
        ELSE IF Len(e2.position) > MaxNameLen
             THEN [err |-> "position too long (max 200)", e |-> e2]
        ELSE [err |-> NoErr, e |-> e2]

(***************************************************************************)
(* The GORM calls of the handlers.  Create, Save and Update (unlike         *)
(* UpdateColumn) run the BeforeSave hook of the statement's model value    *)
(* first and issue no SQL when it returns an error.  `fail` names the      *)
(* store call of the request that meets an unexpected store failure        *)
(* ("none": no failure).                                                   *)
(***************************************************************************)
\* db.Create(&dept): hook, then INSERT with id = nextval of the SERIAL column
CreateDept(s, d0, fail) ==
    LET h == DepartmentBeforeSave(s.departments, d0, fail = "count")
        row == [h.d EXCEPT !.id = s.deptSeq]
    IN  IF h.err # NoErr THEN [err |-> h.err, s |-> s, row |-> h.d]
        ELSE IF fail = "write" THEN [err |-> ErrStore, s |-> s, row |-> h.d]
        ELSE IF ~DeptForeignKeyOk(s.departments, row.parent_id)
             THEN [err |-> ErrForeignKey, s |-> [s EXCEPT !.deptSeq = @ + 1], row |-> h.d]
        ELSE [err |-> NoErr,
              s |-> [s EXCEPT !.departments = @ \cup {row}, !.deptSeq = @ + 1],
              row |-> row]

\* db.Create(&emp)
CreateEmp(s, e0, fail) ==
    LET h == EmployeeBeforeSave(e0)
        row == [h.e EXCEPT !.id = s.empSeq]
    IN  IF h.err # NoErr THEN [err |-> h.err, s |-> s, row |-> h.e]
        ELSE IF fail = "write" THEN [err |-> ErrStore, s |-> s, row |-> h.e]
        ELSE IF ~EmpForeignKeyOk(s.departments, row.department_id)
             THEN [err |-> ErrForeignKey, s |-> [s EXCEPT !.empSeq = @ + 1], row |-> h.e]
        ELSE [err |-> NoErr,
              s |-> [s EXCEPT !.employees = @ \cup {row}, !.empSeq = @ + 1],
              row |-> row]

\* mutant of SaveDept: departments.parent_id without its REFERENCES constraint
SaveDeptNoForeignKey(s, d0, fail) ==
    LET h == DepartmentBeforeSave(s.departments, d0, fail = "count")
    IN  IF h.err # NoErr THEN [err |-> h.err, s |-> s, row |-> h.d]
        ELSE IF fail = "write" THEN [err |-> ErrStore, s |-> s, row |-> h.d]
        ELSE [err |-> NoErr,
              s |-> [s EXCEPT !.departments =
                        {x \in @ : x.id # h.d.id} \cup {h.d}],
              row |-> h.d]

\* db.Save(&dept) of a loaded row: hook, then UPDATE ... WHERE id = dept.ID
SaveDept(s, d0, fail) ==
    LET h == DepartmentBeforeSave(s.departments, d0, fail = "count")
    IN  IF h.err # NoErr THEN [err |-> h.err, s |-> s, row |-> h.d]
        ELSE IF fail = "write" THEN [err |-> ErrStore, s |-> s, row |-> h.d]
        ELSE IF ~DeptForeignKeyOk(s.departments, h.d.parent_id)
             THEN [err |-> ErrForeignKey, s |-> s, row |-> h.d]
        ELSE [err |-> NoErr,
              s |-> [s EXCEPT !.departments =
                        {x \in @ : x.id # h.d.id} \cup {h.d}],
              row |-> h.d]

\* tx.Model(&Employee{}).Where("department_id = ?", id).Update("department_id", to):
\* Update runs BeforeSave on the Model value, here the zero Employee
UpdateEmployeesDept(s, id, to, fail) ==
    LET h == EmployeeBeforeSave(ZeroEmployee)
        hit == {e \in s.employees : e.department_id = id}
    IN  IF h.err # NoErr THEN [err |-> h.err, s |-> s]
        ELSE IF fail = "employees" THEN [err |-> ErrStore, s |-> s]
        ELSE IF hit # {} /\ ~EmpForeignKeyOk(s.departments, to)
             THEN [err |-> ErrForeignKey, s |-> s]
        ELSE [err |-> NoErr,
              s |-> [s EXCEPT !.employees =
                        (@ \ hit) \cup {[e EXCEPT !.department_id = to] : e \in hit}]]

\* tx.Model(&Department{}).Where("parent_id = ?", id).Update("parent_id", to):
\* Update runs BeforeSave on the Model value, here the zero Department
UpdateChildrenParent(s, id, to, fail) ==
    LET h == DepartmentBeforeSave(s.departments, ZeroDepartment, fail = "children")
        hit == {d \in s.departments : d.parent_id = Ptr(id)}
    IN  IF h.err # NoErr THEN [err |-> h.err, s |-> s]
        ELSE IF fail = "children" THEN [err |-> ErrStore, s |-> s]
        ELSE IF hit # {} /\ ~DeptForeignKeyOk(s.departments, Ptr(to))
             THEN [err |-> ErrForeignKey, s |-> s]
        ELSE [err |-> NoErr,
              s |-> [s EXCEPT !.departments =
                        (@ \ hit) \cup {[d EXCEPT !.parent_id = Ptr(to)] : d \in hit}]]

\* mutant of ChildIds: the edge followed the wrong way, WHERE id = the
\* parent_id of id
ChildIdsReversed(D, id) ==
    {Deref(d.parent_id) : d \in {x \in D : x.id = id /\ x.parent_id # Nil}}

\* the ids of the rows WHERE parent_id = id (Pluck("id", ...))
ChildIds(D, id) == {d.id : d \in {x \in D : x.parent_id = Ptr(id)}}

\* a set of ids as a slice, in ascending order (the order of a Pluck result
\* is the store's; CheckCycle's answer does not depend on it)
RECURSIVE IdSlice(_)
IdSlice(ids) ==
    IF ids = {} THEN <<>>
    ELSE LET m == CHOOSE x \in ids : \A y \in ids : x <= y
         IN  <<m>> \o IdSlice(ids \ {m})

\* mutant of CheckCycleLoop: the children of a visited department are not
\* appended to the queue
RECURSIVE CheckCycleLoopShallow(_, _, _, _)
CheckCycleLoopShallow(D, queue, visited, newParent) ==
    IF queue = <<>> THEN NoErr
    ELSE LET current == Head(queue)
             rest == Tail(queue)
         IN  IF current \in visited THEN CheckCycleLoopShallow(D, rest, visited, newParent)
             ELSE IF current = newParent
                  THEN "cannot move department inside its own subtree"
             ELSE CheckCycleLoopShallow(D, rest, visited \cup {current}, newParent)

\* the loop of CheckCycle (models.go:88-103)
RECURSIVE CheckCycleLoop(_, _, _, _)
CheckCycleLoop(D, queue, visited, newParent) ==
    IF queue = <<>> THEN NoErr
    ELSE LET current == Head(queue)
             rest == Tail(queue)
         IN  IF current \in visited THEN CheckCycleLoop(D, rest, visited, newParent)
             ELSE IF current = newParent
                  THEN "cannot move department inside its own subtree"
             ELSE CheckCycleLoop(D, rest \o IdSlice(ChildIds(D, current)),
                                 visited \cup {current}, newParent)

\* mutant of CheckCycle: only the self-parent test
CheckCycleSelfOnly(D, d, newParentID, pluckFails) ==
    IF newParentID = Nil THEN NoErr
    ELSE IF Deref(newParentID) = d.id THEN "cannot be parent of itself"
    ELSE NoErr

\* (d *Department) CheckCycle(db, newParentID)
CheckCycle(D, d, newParentID, pluckFails) ==
    IF newParentID = Nil THEN NoErr
    ELSE IF Deref(newParentID) = d.id THEN "cannot be parent of itself"
    ELSE IF pluckFails THEN ErrStore
    ELSE CheckCycleLoop(D, IdSlice(ChildIds(D, d.id)), {d.id}, Deref(newParentID))

(***************************************************************************)
(* handlers.go: request bodies.  A JSON member is absent, null or a value; *)
(* encoding/json leaves the struct field at its zero value for the first   *)
(* two.                                                                    *)
(***************************************************************************)
JAbsent == [kind |-> "absent", str |-> <<>>, num |-> 0]

JNull == [kind |-> "null", str |-> <<>>, num |-> 0]

JString(s) == [kind |-> "string", str |-> s, num |-> 0]

JNumber(n) == [kind |-> "number", str |-> <<>>, num |-> n]

\* a member decoded into a string field
DecodeString(j) == IF j.kind = "string" THEN j.str ELSE <<>>

\* a member decoded into a *string field
DecodeStringPtr(j) == IF j.kind = "string" THEN Ptr(j.str) ELSE Nil

\* a member decoded into a *int field
DecodeIntPtr(j) == IF j.kind = "number" THEN Ptr(j.num) ELSE Nil

\* json.NewDecoder(r.Body).Decode(&req) into CreateDepartmentRequest
DecodeCreateDepartment(body) ==
    [err |-> ~body.wellFormed,
     Name |-> DecodeString(body.name),
     ParentID |-> DecodeIntPtr(body.parent_id)]

\* ... into UpdateDepartmentRequest
DecodeUpdateDepartment(body) ==
    [err |-> ~body.wellFormed,
     Name |-> DecodeStringPtr(body.name),
     ParentID |-> DecodeIntPtr(body.parent_id)]

\* ... into CreateEmployeeRequest
DecodeCreateEmployee(body) ==
    [err |-> ~body.wellFormed,
     FullName |-> DecodeString(body.full_name),
     Position |-> DecodeString(body.position)]

(***************************************************************************)
(* handlers.go: the handlers.  A response is the status written, the       *)
(* error message of its body ("" when it is no error body), the store the  *)
(* request leaves behind, and what became of the transaction it opened.    *)
(***************************************************************************)
respondJSON(status, s) == [status |-> status, error |-> "", s |-> s, tx |-> "none"]

respondError(status, message, s) ==
    [status |-> status, error |-> message, s |-> s, tx |-> "none"]

WithTx(resp, tx) == [resp EXCEPT !.tx = tx]

\* a response whose body is the JSON encoding of data
WithBody(resp, data) == [status |-> resp.status, error |-> resp.error,
                         s |-> resp.s, tx |-> resp.tx, body |-> data]

\* createDepartment
createDepartment(s, body, fail) ==
    LET req == DecodeCreateDepartment(body)
        parent == IF req.ParentID # Nil
                  THEN First(s.departments, Deref(req.ParentID), fail = "parent")
                  ELSE [err |-> NoErr, row |-> Nil]
        dept == [ZeroDepartment EXCEPT !.name = req.Name, !.parent_id = req.ParentID]
        c == CreateDept(s, dept, fail)
    IN  IF req.err THEN respondError(400, "invalid request body", s)
        ELSE IF parent.err = ErrRecordNotFound
             THEN respondError(404, "parent department not found", s)
        ELSE IF parent.err # NoErr THEN respondError(500, "database error", s)
        ELSE IF c.err # NoErr THEN respondError(400, c.err, c.s)
        ELSE WithBody(respondJSON(201, c.s), c.row)

\* createEmployee; idStr = the {id} path value
createEmployee(s, idStr, body, fail) ==
    LET id == Atoi(idStr)
        dept == First(s.departments, id.val, fail = "first")
        req == DecodeCreateEmployee(body)
        emp == [ZeroEmployee EXCEPT !.department_id = id.val,
                                    !.full_name = req.FullName,
                                    !.position = req.Position]
        c == CreateEmp(s, emp, fail)
    IN  IF ~id.ok THEN respondError(400, "invalid department id", s)
        ELSE IF dept.err = ErrRecordNotFound
             THEN respondError(404, "department not found", s)
        ELSE IF dept.err # NoErr THEN respondError(500, "database error", s)
        ELSE IF req.err THEN respondError(400, "invalid request body", s)
        ELSE IF c.err # NoErr THEN respondError(400, c.err, c.s)
        ELSE WithBody(respondJSON(201, c.s), c.row)

\* updateDepartment
updateDepartment(s, idStr, body, fail) ==
    LET id == Atoi(idStr)
        req == DecodeUpdateDepartment(body)
        loaded == First(s.departments, id.val, fail = "first")
        dept == Deref(loaded.row)
        parent == IF Deref(req.ParentID) # 0
                  THEN First(s.departments, Deref(req.ParentID), fail = "parent")
                  ELSE [err |-> NoErr, row |-> Nil]
        cycle == CheckCycle(s.departments, dept, req.ParentID, fail = "cycle")
        d1 == IF req.ParentID # Nil THEN [dept EXCEPT !.parent_id = req.ParentID] ELSE dept
        d2 == IF req.Name # Nil THEN [d1 EXCEPT !.name = Deref(req.Name)] ELSE d1
        saved == SaveDept(s, d2, fail)
    IN  IF ~id.ok THEN respondError(400, "invalid department id", s)
        ELSE IF req.err THEN respondError(400, "invalid request body", s)
        ELSE IF loaded.err = ErrRecordNotFound
             THEN respondError(404, "department not found", s)
        ELSE IF loaded.err # NoErr THEN respondError(500, "database error", s)
        ELSE IF req.ParentID # Nil /\ parent.err = ErrRecordNotFound
             THEN respondError(404, "parent department not found", s)
        ELSE IF req.ParentID # Nil /\ parent.err # NoErr
             THEN respondError(500, "database error", s)
        ELSE IF req.ParentID # Nil /\ cycle # NoErr THEN respondError(409, cycle, s)
        ELSE IF saved.err # NoErr THEN respondError(400, saved.err, saved.s)
        ELSE respondJSON(200, saved.s)

\* tx.Rollback(): the store is as it was when the transaction began
Rollback(s, tx) == s

\* tx.Commit(): the transaction's writes become the store
Commit(s, tx) == tx

\* mutant of deleteReassign: the statements are issued on db, each committed
\* on its own, as UpdateColumn (no hooks), so an error return leaves the
\* statements before it applied
deleteReassignAutocommit(s, tx, dept, to, fail) ==
    LET target == First(s.departments, to, fail = "target")
        hitE == {e \in s.employees : e.department_id = dept.id}
        s1 == [s EXCEPT !.employees =
                  (@ \ hitE) \cup {[e EXCEPT !.department_id = to] : e \in hitE}]
        hitD == {d \in s1.departments : d.parent_id = Ptr(dept.id)}
        s2 == [s1 EXCEPT !.departments =
                  (@ \ hitD) \cup {[d EXCEPT !.parent_id = Ptr(to)] : d \in hitD}]
        failed(status, message, t) ==
            [returned |-> TRUE, tx |-> t,
             resp |-> WithTx(respondError(status, message, t), "none")]
    IN  IF target.err = ErrRecordNotFound
        THEN failed(404, "reassign target department not found", s)
        ELSE IF target.err # NoErr THEN failed(500, "database error", s)
        ELSE IF fail = "employees" THEN failed(500, ErrStore, s)
        ELSE IF fail = "children" THEN failed(500, ErrStore, s1)
        ELSE IF fail = "delete" THEN failed(500, ErrStore, s2)
        ELSE [returned |-> FALSE, tx |-> SqlDeleteDepartment(s2, dept.id),
              resp |-> respondJSON(0, s)]

\* the reassign branch of deleteDepartment (handlers.go:376-405) on the
\* transaction's copy tx of the store s: `returned` when the branch has
\* written the response, else the transaction to commit
deleteReassign(s, tx, dept, to, fail) ==
    LET target == First(tx.departments, to, fail = "target")
        emps == UpdateEmployeesDept(tx, dept.id, to, fail)
        kids == UpdateChildrenParent(emps.s, dept.id, to, fail)
        rolledBack(status, message, t) ==
            [returned |-> TRUE, tx |-> t,
             resp |-> WithTx(respondError(status, message, Rollback(s, t)), "rolledback")]
    IN  IF target.err = ErrRecordNotFound
        THEN rolledBack(404, "reassign target department not found", tx)
        ELSE IF target.err # NoErr THEN rolledBack(500, "database error", tx)
        ELSE IF emps.err # NoErr THEN rolledBack(500, emps.err, emps.s)
        ELSE IF kids.err # NoErr THEN rolledBack(500, kids.err, kids.s)
        ELSE IF fail = "delete" THEN rolledBack(500, ErrStore, kids.s)
        ELSE [returned |-> FALSE, tx |-> SqlDeleteDepartment(kids.s, dept.id),
              resp |-> respondJSON(0, s)]

\* the cascade branch of deleteDepartment (handlers.go:369-375)
deleteCascade(s, tx, dept, fail) ==
    IF fail = "delete"
    THEN [returned |-> TRUE, tx |-> tx,
          resp |-> WithTx(respondError(500, ErrStore, Rollback(s, tx)), "rolledback")]
    ELSE [returned |-> FALSE, tx |-> SqlDeleteDepartment(tx, dept.id),
          resp |-> respondJSON(0, s)]

\* deleteDepartment; idStr = the {id} path value, modeStr and reassignToStr
\* the query values of mode and reassign_to_department_id (empty when absent)
deleteDepartment(s, idStr, modeStr, reassignToStr, fail) ==
    LET id == Atoi(idStr)
        mode == IF modeStr = "" THEN "cascade" ELSE modeStr
        hasTo == reassignToStr # <<>>
        to == Atoi(reassignToStr)
        loaded == First(s.departments, id.val, fail = "first")
        dept == Deref(loaded.row)
        \* db.Begin(): the transaction starts from the store as it is
        tx == s
        branch == IF mode = "cascade" THEN deleteCascade(s, tx, dept, fail)
                  ELSE deleteReassign(s, tx, dept, to.val, fail)
    IN  IF ~id.ok THEN respondError(400, "invalid department id", s)
        ELSE IF hasTo /\ ~to.ok
             THEN respondError(400, "invalid reassign_to_department_id", s)
        ELSE IF mode = "reassign" /\ ~hasTo
             THEN respondError(400, "reassign_to_department_id is required for reassign mode", s)
        ELSE IF loaded.err = ErrRecordNotFound
             THEN respondError(404, "department not found", s)
        ELSE IF loaded.err # NoErr THEN respondError(500, "database error", s)
        ELSE IF fail = "begin" THEN respondError(500, "transaction error", s)
        ELSE IF mode \notin {"cascade", "reassign"}
             THEN WithTx(respondError(400, "mode must be 'cascade' or 'reassign'", s), "open")
        ELSE IF branch.returned THEN branch.resp
        ELSE IF fail = "commit" THEN WithTx(respondError(500, ErrStore, s), "commitfailed")
        ELSE WithTx(respondJSON(204, Commit(s, branch.tx)), "committed")

(***************************************************************************)
(* handlers.go: getDepartment.  deptMap maps an id to its node; map         *)
(* iteration order is unspecified in Go, so the order in which the linking  *)
(* loop meets the nodes is an input (`order`, a permutation of the keys).   *)
(* The rows of an ORDER BY come in any order the key allows (`eorder`).     *)
(***************************************************************************)
\* the characters of the inputs, in code-point order
Alphabet == <<"\t", " ", "0", "1", "2", "3", "4", "5", "6", "7", "8", "9",
              "a", "b", "x", "y">>

CharCode(c) == CHOOSE i \in 1..Len(Alphabet) : Alphabet[i] = c

\* a <= b for the byte-wise collation of ORDER BY full_name
RECURSIVE StrLeq(_, _)
StrLeq(a, b) ==
    IF a = <<>> THEN TRUE
    ELSE IF b = <<>> THEN FALSE
    ELSE IF Head(a) = Head(b) THEN StrLeq(Tail(a), Tail(b))
    ELSE CharCode(Head(a)) < CharCode(Head(b))

Range(f) == {f[i] : i \in DOMAIN f}

\* the orders in which the elements of a set can be met
Perms(S) ==
    {p \in [1..Cardinality(S) -> S] : \A i, j \in 1..Cardinality(S) : p[i] = p[j] => i = j}

\* strconv.ParseBool
ParseBool(str) ==
    IF str \in {"1", "t", "T", "TRUE", "true", "True"} THEN [ok |-> TRUE, val |-> TRUE]
    ELSE IF str \in {"0", "f", "F", "FALSE", "false", "False"} THEN [ok |-> TRUE, val |-> FALSE]
    ELSE [ok |-> FALSE, val |-> FALSE]

\* a Department value as loaded from a row: the gorm:"-" fields are nil
LoadedDepartment(row) ==
    [id |-> row.id, name |-> row.name, parent_id |-> row.parent_id,
     Children |-> <<>>, Employees |-> <<>>]

\* &deptNode{Department: d, Level: level}: the node holds a copy of d
DeptNode(d, level) == [Department |-> d, Level |-> level]

\* the level loop (handlers.go:183-198): currentIDs as a set, its order
\* reaches nothing but the IN list of the next query
RECURSIVE LoadLevels(_, _, _, _, _)
LoadLevels(D, deptMap, currentIDs, level, depth) ==
    IF level > depth \/ currentIDs = {} THEN deptMap
    ELSE LET children == {x \in D : x.parent_id # Nil /\ Deref(x.parent_id) \in currentIDs}
             nextIDs == {x.id : x \in children}
             loaded == [i \in DOMAIN deptMap \cup nextIDs |->
                          IF i \in nextIDs
                          THEN DeptNode(LoadedDepartment(CHOOSE x \in children : x.id = i), level)
                          ELSE deptMap[i]]
         IN  LoadLevels(D, loaded, nextIDs, level + 1, depth)

\* the linking loop (handlers.go:201-207), nodes met in `order`:
\* append(parent.Children, node.Department) stores a copy of the node's
\* Department as it is at that moment
RECURSIVE LinkChildren(_, _)
LinkChildren(deptMap, order) ==
    IF order = <<>> THEN deptMap
    ELSE LET node == deptMap[Head(order)]
             p == node.Department.parent_id
             linked == IF p # Nil /\ Deref(p) \in DOMAIN deptMap
                       THEN [deptMap EXCEPT ![Deref(p)].Department.Children =
                                Append(@, node.Department)]
                       ELSE deptMap
         IN  LinkChildren(linked, Tail(order))

\* the results db.Where("department_id IN ?", ids).Order(sortBy).Find can
\* give: the matching rows in an order the key allows (created_at grows
\* with the id: both are set at the INSERT)
EmployeeOrders(E, ids, sortBy) ==
    LET hit == {e \in E : e.department_id \in ids}
        leq(a, b) == IF sortBy = "full_name" THEN StrLeq(a.full_name, b.full_name)
                     ELSE a.id <= b.id
    IN  {p \in Perms(hit) : \A i, j \in 1..Cardinality(hit) : i < j => leq(p[i], p[j])}

\* empMap[emp.DepartmentID] = append(..., emp) over the result, for one id
EmployeesOf(result, id) == SelectSeq(result, LAMBDA e : e.department_id = id)

\* node.Employees = empMap[node.ID] for every node (handlers.go:226-232)
AssignEmployees(deptMap, result) ==
    [i \in DOMAIN deptMap |->
        [deptMap[i] EXCEPT !.Department.Employees =
            EmployeesOf(result, deptMap[i].Department.id)]]

\* toResponse (handlers.go:237-262); omitempty: an empty list is no member
RECURSIVE toResponse(_, _, _, _)
toResponse(dept, currentDepth, depth, includeEmployees) ==
    [id |-> dept.id, name |-> dept.name, parent_id |-> dept.parent_id,
     employees |-> IF includeEmployees THEN dept.Employees ELSE <<>>,
     children |-> IF currentDepth < depth
                  THEN [i \in 1..Len(dept.Children) |->
                          toResponse(dept.Children[i], currentDepth + 1, depth,
                                     includeEmployees)]
                  ELSE <<>>]

\* the link orders and query results a GET of root id `id` can meet
GetOrders(s, id, depth) ==
    IF id \notin DeptIds(s.departments) THEN {<<>>}
    ELSE LET rootDept == LoadedDepartment(CHOOSE d \in s.departments : d.id = id)
         IN  Perms(DOMAIN LoadLevels(s.departments, (id :> DeptNode(rootDept, 0)),
                                     {id}, 1, depth))

\* getDepartment; idStr = the {id} path value, depthStr, includeStr and
\* sortStr the query values of depth, include_employees and sort_employees
getDepartment(s, idStr, depthStr, includeStr, sortStr, order, eorder, fail) ==
    LET id == Atoi(idStr)
        d == Atoi(depthStr)
        depth == IF depthStr = <<>> THEN 1 ELSE d.val
        ie == ParseBool(includeStr)
        includeEmployees == IF includeStr = "" THEN TRUE ELSE ie.val
        sortBy == IF sortStr = "" THEN "full_name" ELSE sortStr
        loaded == First(s.departments, id.val, fail = "first")
        rootDept == LoadedDepartment(Deref(loaded.row))
        deptMap == LoadLevels(s.departments, (rootDept.id :> DeptNode(rootDept, 0)),
                              {rootDept.id}, 1, depth)
        linked == LinkChildren(deptMap, order)
        withEmps == IF includeEmployees THEN AssignEmployees(linked, eorder) ELSE linked
    IN  IF ~id.ok THEN respondError(400, "invalid department id", s)
        ELSE IF depthStr # <<>> /\ ~(d.ok /\ d.val >= 1 /\ d.val <= 5)
             THEN respondError(400, "depth must be integer between 1 and 5", s)
        ELSE IF includeStr # "" /\ ~ie.ok
             THEN respondError(400, "include_employees must be boolean", s)
        ELSE IF sortStr \notin {"", "full_name", "created_at"}
             THEN respondError(400, "sort_employees must be 'full_name' or 'created_at'", s)
        ELSE IF loaded.err = ErrRecordNotFound
             THEN respondError(404, "department not found", s)
        ELSE IF loaded.err # NoErr THEN respondError(500, "database error", s)
        ELSE IF fail = "children" THEN respondError(500, "database error", s)
        ELSE IF includeEmployees /\ fail = "employees"
             THEN respondError(500, "database error", s)
        \* the tree is rendered from rootDept, the value loaded at line 166:
        \* the children and employees were attached to its copy in deptMap
        ELSE WithBody(respondJSON(200, s),
                      toResponse(rootDept, 0, depth, includeEmployees))

(***************************************************************************)
(* Requests.                                                               *)
(***************************************************************************)
LongName == [i \in 1..(MaxNameLen + 1) |-> "a"]

\* name members of department bodies
NameInputs == {JAbsent, JString(<<" ">>), JString(<<"a">>),
               JString(<<" ", "a", " ">>), JString(<<"b">>), JString(LongName)}

\* full_name and position members of employee bodies
EmpNameInputs == {JAbsent, JString(<<" ">>), JString(<<"x", " ">>), JString(LongName)}

\* department ids a request may name: 0 names no row
IdInputs == 0..MaxDepts

IdStrs == {Itoa(i) : i \in IdInputs} \cup {<<"x">>}

\* parent_id members of department bodies
ParentInputs == {JAbsent, JNull} \cup {JNumber(i) : i \in IdInputs}

DepartmentBodies ==
    [wellFormed : {TRUE}, name : NameInputs, parent_id : ParentInputs]
        \cup {[wellFormed |-> FALSE, name |-> JAbsent, parent_id |-> JAbsent]}

EmployeeBodies ==
    [wellFormed : {TRUE}, full_name : EmpNameInputs, position : EmpNameInputs]
        \cup {[wellFormed |-> FALSE, full_name |-> JAbsent, position |-> JAbsent]}

ModeStrs == {"", "cascade", "reassign", "purge"}

ReassignToStrs == {<<>>} \cup IdStrs

\* the value is used by the reassign branch alone; with another mode it is
\* parsed and dropped (handlers.go:335-344)
ReassignToStrsFor(modeStr) ==
    IF modeStr = "reassign" THEN ReassignToStrs ELSE {<<>>, <<"x">>, Itoa(0)}

\* the store calls a failure can be injected at: none when the request is
\* rejected before the first store call (handlers.go:325-348), else those
\* of the branch the mode selects
DeleteFails(idStr, modeStr, reassignToStr) ==
    IF \/ ~Atoi(idStr).ok
       \/ (reassignToStr # <<>> /\ ~Atoi(reassignToStr).ok)
       \/ (modeStr = "reassign" /\ reassignToStr = <<>>)
    THEN {"none"}
    ELSE IF modeStr = "reassign"
    THEN {"none", "first", "begin", "target", "employees", "children", "delete", "commit"}
    ELSE IF modeStr \in {"", "cascade"}
    THEN {"none", "first", "begin", "delete", "commit"}
    ELSE {"none", "first", "begin"}

(***************************************************************************)
(* The state machine: requests are served one at a time.                   *)
(***************************************************************************)
\* no call is followed step by step
Idle == <<>>

Init ==
    /\ departments = {}
    /\ employees = {}
    /\ deptSeq = 1
    /\ empSeq = 1
    /\ last = [op |-> "none", status |-> 0, error |-> "", tx |-> "none"]
    /\ inflight = Idle

Apply(op, r) ==
    /\ departments' = r.s.departments
    /\ employees' = r.s.employees
    /\ deptSeq' = r.s.deptSeq
    /\ empSeq' = r.s.empSeq
    /\ last' = [op |-> op, status |-> r.status, error |-> r.error, tx |-> r.tx]
    /\ UNCHANGED inflight

CreateDepartment ==
    /\ deptSeq <= MaxDepts
    /\ \E body \in DepartmentBodies :
          Apply("createDepartment", createDepartment(Store, body, "none"))

CreateEmployee ==
    /\ empSeq <= MaxEmps
    /\ \E idStr \in IdStrs, body \in EmployeeBodies :
          Apply("createEmployee", createEmployee(Store, idStr, body, "none"))

UpdateDepartment ==
    \E idStr \in IdStrs, body \in DepartmentBodies :
        Apply("updateDepartment", updateDepartment(Store, idStr, body, "none"))

DeleteDepartment ==
    \E idStr \in IdStrs, modeStr \in ModeStrs :
      \E reassignToStr \in ReassignToStrsFor(modeStr) :
      \E fail \in DeleteFails(idStr, modeStr, reassignToStr) :
        Apply("deleteDepartment",
              deleteDepartment(Store, idStr, modeStr, reassignToStr, fail))

Next ==
    \/ CreateDepartment
    \/ CreateEmployee
    \/ UpdateDepartment
    \/ DeleteDepartment

Spec == Init /\ [][Next]_vars

(***************************************************************************)
(* Reads: GET requests against the stores that creations alone produce     *)
(* (a parent has a smaller id than its child), large enough for a tree of  *)
(* several levels.                                                         *)
(***************************************************************************)
\* departments 1..n of such a store, n <= MaxGetDepts
MaxGetDepts == 3
\* employees 1..m of such a store, m <= MaxGetEmps
MaxGetEmps == 2

\* the departments tables of at most maxDepts rows that creations produce
DepartmentTables(maxDepts) ==
    UNION {{{[id |-> i, name |-> <<"a">> \o Itoa(i), parent_id |-> par[i]] : i \in 1..n} :
              par \in {f \in [1..n -> {Nil} \cup {Ptr(j) : j \in 1..n}] :
                         \A i \in 1..n : f[i] # Nil => Deref(f[i]) < i}} :
           n \in 0..maxDepts}

\* the later an employee was created the earlier its name sorts, so that
\* the two sort keys disagree
EmployeeTables(D, maxEmps) ==
    UNION {{{[id |-> i, department_id |-> dep[i],
              full_name |-> IF i % 2 = 1 THEN <<"y">> ELSE <<"x">>,
              position |-> <<"x">>] : i \in 1..m} :
              dep \in [1..m -> DeptIds(D)]} :
           m \in 0..maxEmps}

GetIdStrs == {Itoa(i) : i \in 0..MaxGetDepts} \cup {<<"x">>}

DepthStrs == {<<>>, Itoa(0), Itoa(2), Itoa(5), <<"x">>}

IncludeStrs == {"", "false", "maybe"}

SortStrs == {"", "created_at", "name"}

\* the store calls a failure can be injected at: none when the request is
\* rejected before the first store call (handlers.go:130-162)
GetFails(idStr, depthStr, includeStr, sortStr) ==
    IF \/ ~Atoi(idStr).ok
       \/ (depthStr # <<>> /\ Atoi(depthStr).val \notin 1..5)
       \/ (includeStr # "" /\ ~ParseBool(includeStr).ok)
       \/ sortStr \notin {"", "full_name", "created_at"}
    THEN {"none"}
    ELSE {"none", "first", "children", "employees"}

InitGet ==
    /\ departments \in DepartmentTables(MaxGetDepts)
    /\ employees \in EmployeeTables(departments, MaxGetEmps)
    /\ deptSeq = Cardinality(departments) + 1
    /\ empSeq = Cardinality(employees) + 1
    /\ last = [op |-> "none", status |-> 0, error |-> "", tx |-> "none", body |-> Nil]
    /\ inflight = Idle

GetDepartment ==
    \E idStr \in GetIdStrs, depthStr \in DepthStrs, includeStr \in IncludeStrs,
       sortStr \in SortStrs :
      \E fail \in GetFails(idStr, depthStr, includeStr, sortStr) :
      LET id == Atoi(idStr).val
          depth == IF depthStr = <<>> THEN 1 ELSE Atoi(depthStr).val
          sortBy == IF sortStr = "" THEN "full_name" ELSE sortStr
      IN  \E order \in GetOrders(Store, id, depth) :
          \E eorder \in EmployeeOrders(employees, Range(order), sortBy) :
            LET r == getDepartment(Store, idStr, depthStr, includeStr, sortStr,
                                   order, eorder, fail)
            IN  /\ last' = [op |-> "getDepartment", status |-> r.status,
                            error |-> r.error, tx |-> r.tx,
                            body |-> IF r.status = 200 THEN Ptr(r.body) ELSE Nil]
                /\ UNCHANGED <<departments, employees, deptSeq, empSeq, inflight>>

NextGet == GetDepartment

SpecGet == InitGet /\ [][NextGet]_vars

(***************************************************************************)
(* models.go: CheckCycle followed one loop iteration at a time, on every   *)
(* departments table over a few ids, the tables whose parent relation has  *)
(* a cycle included.  inflight holds the locals of the call; plucked[i]    *)
(* counts the Pluck queries for the children of department i.              *)
(***************************************************************************)
\* departments 1..n of such a table, n <= MaxCycleDepts
MaxCycleDepts == 3

CycleTables ==
    UNION {{{[id |-> i, name |-> <<"a">> \o Itoa(i), parent_id |-> par[i]] : i \in 1..n} :
              par \in [1..n -> {Nil} \cup {Ptr(j) : j \in 1..n}]} :
           n \in 1..MaxCycleDepts}

\* d.CheckCycle(db, newParentID) is called (models.go:74)
CheckCycleCall(D, id, newParentID) ==
    [call |-> "CheckCycle", pc |-> "start", id |-> id, newParentID |-> newParentID,
     queue |-> <<>>, visited |-> {}, plucked |-> [i \in DeptIds(D) |-> 0], err |-> NoErr]

\* one more Pluck of the children of id
Plucked(c, id) ==
    [i \in DOMAIN c.plucked \cup {id} |->
        IF i = id THEN (IF i \in DOMAIN c.plucked THEN c.plucked[i] + 1 ELSE 1)
        ELSE c.plucked[i]]

\* models.go:75-87: the two tests, the first Pluck, queue and visited
CheckCycleStart(D, c) ==
    IF c.newParentID = Nil THEN [c EXCEPT !.pc = "done", !.err = NoErr]
    ELSE IF Deref(c.newParentID) = c.id
         THEN [c EXCEPT !.pc = "done", !.err = "cannot be parent of itself"]
    ELSE [c EXCEPT !.pc = "loop",
                   !.queue = IdSlice(ChildIds(D, c.id)),
                   !.visited = {c.id},
                   !.plucked = Plucked(c, c.id)]

\* mutant of CheckCycleIterate: no visited test
CheckCycleIterateNoVisited(D, c) ==
    IF c.queue = <<>> THEN [c EXCEPT !.pc = "done", !.err = NoErr]
    ELSE LET current == Head(c.queue)
             rest == Tail(c.queue)
         IN  IF current = Deref(c.newParentID)
             THEN [c EXCEPT !.pc = "done", !.queue = rest,
                            !.err = "cannot move department inside its own subtree"]
             ELSE [c EXCEPT !.queue = rest \o IdSlice(ChildIds(D, current)),
                            !.plucked = Plucked(c, current)]

\* models.go:88-103: the loop test and one iteration
CheckCycleIterate(D, c) ==
    IF c.queue = <<>> THEN [c EXCEPT !.pc = "done", !.err = NoErr]
    ELSE LET current == Head(c.queue)
             rest == Tail(c.queue)
         IN  IF current \in c.visited THEN [c EXCEPT !.queue = rest]
             ELSE IF current = Deref(c.newParentID)
                  THEN [c EXCEPT !.pc = "done", !.queue = rest,
                                 !.visited = @ \cup {current},
                                 !.err = "cannot move department inside its own subtree"]
             ELSE [c EXCEPT !.queue = rest \o IdSlice(ChildIds(D, current)),
                            !.visited = @ \cup {current},
                            !.plucked = Plucked(c, current)]

InitCheckCycle ==
    /\ departments \in CycleTables
    /\ employees = {}
    /\ deptSeq = Cardinality(departments) + 1
    /\ empSeq = 1
    /\ last = [op |-> "none", status |-> 0, error |-> "", tx |-> "none"]
    /\ \E id \in DeptIds(departments) :
       \E newParentID \in {Nil} \cup {Ptr(j) : j \in 0..MaxCycleDepts} :
          inflight = CheckCycleCall(departments, id, newParentID)

CheckCycleStartStep ==
    /\ inflight.pc = "start"
    /\ inflight' = CheckCycleStart(departments, inflight)
    /\ UNCHANGED <<departments, employees, deptSeq, empSeq, last>>

CheckCycleIterateStep ==
    /\ inflight.pc = "loop"
    /\ inflight' = CheckCycleIterate(departments, inflight)
    /\ UNCHANGED <<departments, employees, deptSeq, empSeq, last>>

NextCheckCycle ==
    \/ CheckCycleStartStep
    \/ CheckCycleIterateStep

\* the call runs on: a goroutine that can take a step takes it
SpecCheckCycle ==
    InitCheckCycle /\ [][NextCheckCycle]_vars /\ WF_vars(NextCheckCycle)

(***************************************************************************)
(* handlers.go: deleteDepartment followed one store call at a time, two    *)
(* requests at once.  departments and employees are the committed rows.    *)
(* A transaction reads the committed rows (READ COMMITTED) until its first *)
(* statement that changes a row; from then on it holds the store's write   *)
(* lock and works on its own version of the rows, which Commit publishes   *)
(* and Rollback discards.  The lock stands for the row locks of the store: *)
(* a DELETE of a row waits for the transaction that wrote a row            *)
(* referencing it, and the other way round.                                *)
(***************************************************************************)
\* departments and employees of the stores the two requests start from
MaxTxDepts == 3

MaxTxEmps == 1

\* a DELETE request past its parameter checks (handlers.go:325-348)
DeleteCall(id, mode, to) ==
    [pc |-> "first", id |-> id, mode |-> mode, to |-> to, dept |-> Nil,
     txOpen |-> FALSE, tx |-> Nil, status |-> 0, error |-> ""]

\* the rows the statements of the request's transaction see
TxStore(s, c) == IF c.tx = Nil THEN s ELSE Deref(c.tx)

\* respondError / WriteHeader, then return
Respond(c, status, message) ==
    [c EXCEPT !.pc = "done", !.status = status, !.error = message]

\* tx.Rollback() is next, then respondError(status, message)
ThenRollback(c, status, message) ==
    [c EXCEPT !.pc = "rollback", !.status = status, !.error = message]

\* a statement of the transaction has left the rows `t`: the transaction
\* holds them as its version when a row changed
Wrote(s, c, t, pc) ==
    [c EXCEPT !.pc = pc, !.tx = IF t = TxStore(s, c) THEN c.tx ELSE Ptr(t)]

\* the next store call of request c on the committed rows s: the request
\* after it, and the committed rows after it
deleteDepartmentStep(s, c) ==
    LET t == TxStore(s, c)
        same(c1) == [c |-> c1, s |-> s]
    IN  CASE c.pc = "first" ->
               LET loaded == First(s.departments, c.id, FALSE)
               IN  IF loaded.err = ErrRecordNotFound
                   THEN same(Respond(c, 404, "department not found"))
                   ELSE same([c EXCEPT !.pc = "begin", !.dept = loaded.row])
          [] c.pc = "begin" ->
               same([c EXCEPT !.txOpen = TRUE,
                              !.pc = IF c.mode = "cascade" THEN "delete"
                                     ELSE IF c.mode = "reassign" THEN "target"
                                     ELSE "mode"])
          [] c.pc = "mode" ->
               same(Respond(c, 400, "mode must be 'cascade' or 'reassign'"))
          [] c.pc = "target" ->
               LET target == First(t.departments, c.to, FALSE)
               IN  IF target.err = ErrRecordNotFound
                   THEN same(ThenRollback(c, 404, "reassign target department not found"))
                   ELSE same([c EXCEPT !.pc = "employees"])
          [] c.pc = "employees" ->
               LET u == UpdateEmployeesDept(t, c.id, c.to, "none")
               IN  IF u.err # NoErr THEN same(ThenRollback(c, 500, u.err))
                   ELSE same(Wrote(s, c, u.s, "children"))
          [] c.pc = "children" ->
               LET u == UpdateChildrenParent(t, c.id, c.to, "none")
               IN  IF u.err # NoErr THEN same(ThenRollback(c, 500, u.err))
                   ELSE same(Wrote(s, c, u.s, "delete"))
          [] c.pc = "delete" ->
               same(Wrote(s, c, SqlDeleteDepartment(t, c.id), "commit"))
          [] c.pc = "commit" ->
               [c |-> [Respond(c, 204, "") EXCEPT !.txOpen = FALSE, !.tx = Nil],
                s |-> Commit(s, t)]
          [] c.pc = "rollback" ->
               [c |-> [c EXCEPT !.pc = "done", !.txOpen = FALSE, !.tx = Nil],
                s |-> Rollback(s, t)]

\* a reassign DELETE of D with target T next to a DELETE of T
InitDeletes ==
    /\ departments \in DepartmentTables(MaxTxDepts)
    /\ employees \in EmployeeTables(departments, MaxTxEmps)
    /\ deptSeq = Cardinality(departments) + 1
    /\ empSeq = Cardinality(employees) + 1
    /\ last = [op |-> "none", status |-> 0, error |-> "", tx |-> "none"]
    /\ \E D, T \in DeptIds(departments) :
         /\ D # T
         /\ \E other \in {[mode |-> "cascade", to |-> 0]}
                   \cup {[mode |-> "reassign", to |-> i] : i \in DeptIds(departments) \ {T}} :
              inflight = [call |-> "deleteDepartment",
                          procs |-> <<DeleteCall(D, "reassign", T),
                                      DeleteCall(T, other.mode, other.to)>>]

\* request p makes its next store call; a statement that changes a row
\* waits while the other request's transaction holds changed rows
DeleteStep(p) ==
    LET c == inflight.procs[p]
        r == deleteDepartmentStep(Store, c)
    IN  /\ c.pc # "done"
        /\ (r.c.tx # Nil /\ c.tx = Nil) => inflight.procs[3 - p].tx = Nil
        /\ inflight' = [inflight EXCEPT !.procs[p] = r.c]
        /\ departments' = r.s.departments
        /\ employees' = r.s.employees
        /\ UNCHANGED <<deptSeq, empSeq, last>>

NextDeletes == \E p \in {1, 2} : DeleteStep(p)

SpecDeletes == InitDeletes /\ [][NextDeletes]_vars

(***************************************************************************)
(* handlers.go: updateDepartment followed one store call at a time, two    *)
(* requests at once.  The handler opens no transaction: each call reads or *)
(* writes the committed rows as they are when it is made.                  *)
(***************************************************************************)
\* departments of the stores the two requests start from
MaxPatchDepts == 3

\* a PATCH request past the checks of its id and body (handlers.go:271-281)
UpdateCall(id, req) ==
    [pc |-> "first", id |-> id, req |-> req, dept |-> Nil, cc |-> Nil,
     status |-> 0, error |-> ""]

\* the UPDATE of db.Save(&dept), after the hook: every column of the row
\* is written from the struct
SqlUpdateDepartment(s, d) ==
    IF ~DeptForeignKeyOk(s.departments, d.parent_id)
    THEN [err |-> ErrForeignKey, s |-> s]
    ELSE [err |-> NoErr,
          s |-> [s EXCEPT !.departments = {x \in @ : x.id # d.id} \cup {d}]]

\* the next store call of request c on the committed rows s: the request
\* after it, and the committed rows after it
updateDepartmentStep(s, c) ==
    LET same(c1) == [c |-> c1, s |-> s]
        named(d) == IF c.req.Name # Nil THEN [d EXCEPT !.name = Deref(c.req.Name)] ELSE d
    IN  CASE c.pc = "first" ->
               LET loaded == First(s.departments, c.id, FALSE)
               IN  IF loaded.err = ErrRecordNotFound
                   THEN same(Respond(c, 404, "department not found"))
                   ELSE same([c EXCEPT
                          !.dept = loaded.row,
                          !.pc = IF c.req.ParentID = Nil THEN "count"
                                 ELSE IF Deref(c.req.ParentID) # 0 THEN "parent"
                                 ELSE "cycle",
                          !.cc = Ptr(CheckCycleCall(s.departments, c.id, c.req.ParentID))])
          [] c.pc = "parent" ->
               LET parent == First(s.departments, Deref(c.req.ParentID), FALSE)
               IN  IF parent.err = ErrRecordNotFound
                   THEN same(Respond(c, 404, "parent department not found"))
                   ELSE same([c EXCEPT !.pc = "cycle"])
          [] c.pc = "cycle" ->
               LET cc == IF Deref(c.cc).pc = "start"
                         THEN CheckCycleStart(s.departments, Deref(c.cc))
                         ELSE CheckCycleIterate(s.departments, Deref(c.cc))
               IN  IF cc.pc # "done" THEN same([c EXCEPT !.cc = Ptr(cc)])
                   ELSE IF cc.err # NoErr THEN same(Respond(c, 409, cc.err))
                   ELSE same([c EXCEPT
                          !.cc = Ptr(cc), !.pc = "count",
                          !.dept = Ptr([Deref(c.dept) EXCEPT !.parent_id = c.req.ParentID])])
          [] c.pc = "count" ->
               LET h == DepartmentBeforeSave(s.departments, named(Deref(c.dept)), FALSE)
               IN  IF h.err # NoErr THEN same(Respond(c, 400, h.err))
                   ELSE same([c EXCEPT !.pc = "update", !.dept = Ptr(h.d)])
          [] c.pc = "update" ->
               LET u == SqlUpdateDepartment(s, Deref(c.dept))
               IN  IF u.err # NoErr THEN same(Respond(c, 400, u.err))
                   ELSE [c |-> Respond(c, 200, ""), s |-> u.s]

\* two PATCH requests, each giving a department an existing parent
InitUpdates ==
    /\ departments \in DepartmentTables(MaxPatchDepts)
    /\ employees = {}
    /\ deptSeq = Cardinality(departments) + 1
    /\ empSeq = 1
    /\ last = [op |-> "none", status |-> 0, error |-> "", tx |-> "none"]
    /\ \E A, B, PA, PB \in DeptIds(departments) :
          inflight = [call |-> "updateDepartment",
                      procs |-> <<UpdateCall(A, [Name |-> Nil, ParentID |-> Ptr(PA)]),
                                  UpdateCall(B, [Name |-> Nil, ParentID |-> Ptr(PB)])>>]

\* request p makes its next store call
UpdateStep(p) ==
    LET c == inflight.procs[p]
        r == updateDepartmentStep(Store, c)
    IN  /\ c.pc # "done"
        /\ inflight' = [inflight EXCEPT !.procs[p] = r.c]
        /\ departments' = r.s.departments
        /\ UNCHANGED <<employees, deptSeq, empSeq, last>>

NextUpdates == \E p \in {1, 2} : UpdateStep(p)

SpecUpdates == InitUpdates /\ [][NextUpdates]_vars

(***************************************************************************)
(* The tree relations the properties are stated with, computed from the    *)
(* parent_id column alone.                                                 *)
(***************************************************************************)
ParentIds(D, ids) ==
    {Deref(d.parent_id) : d \in {x \in D : x.id \in ids /\ x.parent_id # Nil}}

RECURSIVE UpClosure(_, _)
UpClosure(D, ids) ==
    IF ParentIds(D, ids) \subseteq ids THEN ids
    ELSE UpClosure(D, ids \cup ParentIds(D, ids))

\* what is reached from id by following parent_id one or more times
Ancestors(D, id) == UpClosure(D, ParentIds(D, {id}))

\* the departments that reach id by following parent_id one or more times
Descendants(D, id) == {x.id : x \in {y \in D : id \in Ancestors(D, y.id)}}

DirectChildren(D, id) == {x.id : x \in {y \in D : y.parent_id = Ptr(id)}}

DepartmentBody(name, parent_id) ==
    [wellFormed |-> TRUE, name |-> name, parent_id |-> parent_id]

NameStrings == {n \in NameInputs : n.kind = "string"}

(***************************************************************************)
(* Properties.                                                             *)
(***************************************************************************)

\* C1: in every reachable state the parent relation is acyclic: following
\* parent_id one or more times from a department never returns to it.
C1_Acyclic ==
    \A d \in departments : d.id \notin Ancestors(departments, d.id)

\* C1 witness: a reparenting PATCH has succeeded and left a chain of depth two
C1_Witness ==
    /\ last.op = "updateDepartment" /\ last.status = 200
    /\ \E d \in departments : Cardinality(Ancestors(departments, d.id)) >= 2

\* C2: in every reachable state no two distinct departments with the same
\* parent reference, the null parent counting as one scope, have the same name.
C2_SiblingNamesUnique ==
    \A d1, d2 \in departments :
        (d1.id # d2.id /\ d1.parent_id = d2.parent_id) => d1.name # d2.name

\* C3: in every reachable state every employee's department_id identifies a
\* department that exists.
C3_EmployeesHaveDepartment ==
    \A e \in employees : e.department_id \in DeptIds(departments)

\* C3 witness: a DELETE has succeeded and an employee is still stored
C3_Witness ==
    /\ last.op = "deleteDepartment" /\ last.status = 204
    /\ employees # {}

\* C4: in every reachable state every non-null parent_id identifies a
\* department that exists.
C4_ParentExists ==
    \A d \in departments :
        d.parent_id # Nil => Deref(d.parent_id) \in DeptIds(departments)

\* C4 witness: a PATCH naming a parent that is no department (parent_id 0
\* passes the handler's existence test) has been refused by the store, in a
\* state that holds a department with a parent
C4_Witness ==
    /\ last.op = "updateDepartment" /\ last.error = ErrForeignKey
    /\ \E d \in departments : d.parent_id # Nil

\* C5: a PATCH of an existing department A whose parent_id is A or a
\* descendant of A at any depth answers 409 and leaves the store unchanged.
C5_CycleRejected ==
    \A d \in departments :
      \A p \in {d.id} \cup Descendants(departments, d.id), name \in NameInputs :
        LET r == updateDepartment(Store, Itoa(d.id),
                                  DepartmentBody(name, JNumber(p)), "none")
        IN  r.status = 409 /\ r.s = Store

\* C5 witness: a PATCH has been answered 409 for moving a department into its
\* subtree, in a state where a department has a descendant below its children
C5_Witness ==
    /\ last.op = "updateDepartment" /\ last.status = 409
    /\ last.error = "cannot move department inside its own subtree"
    /\ \E d \in departments :
          Descendants(departments, d.id) \ DirectChildren(departments, d.id) # {}

\* C6: a PATCH with parent_id: null on an existing department that has a
\* parent succeeds, and afterwards the department's stored parent_id is null.
C6_ReparentToNull ==
    \A d \in departments :
        d.parent_id # Nil =>
            LET r == updateDepartment(Store, Itoa(d.id),
                                      DepartmentBody(JAbsent, JNull), "none")
            IN  /\ r.status = 200
                /\ \E x \in r.s.departments : x.id = d.id /\ x.parent_id = Nil

\* the parent scopes a create request can name in departments D
ParentScopes(D) == {JAbsent, JNull} \cup {JNumber(i) : i \in DeptIds(D)}

\* C7: of two create-department requests with the same trimmed name issued
\* one after the other, the first succeeding, the second answers 400 and
\* adds no row when both name the same parent scope (one existing parent, or
\* no parent), and succeeds when it names another parent under which the
\* name is free.
C7_DuplicateSiblingRejected ==
    \A n1, n2 \in NameStrings :
      \A p1, p2 \in ParentScopes(departments) :
        LET r1 == createDepartment(Store, DepartmentBody(n1, p1), "none")
            r2 == createDepartment(r1.s, DepartmentBody(n2, p2), "none")
            free == \A x \in departments :
                        x.parent_id = DecodeIntPtr(p2) => x.name # TrimSpace(n2.str)
        IN  (TrimSpace(n1.str) = TrimSpace(n2.str) /\ r1.status = 201) =>
                IF DecodeIntPtr(p1) = DecodeIntPtr(p2)
                THEN r2.status = 400 /\ r2.s = r1.s
                ELSE free => r2.status = 201

\* C8: after a successful DELETE of D with mode cascade or no mode, D, its
\* descendants at every depth and their employees are gone, and every other
\* department and employee is unchanged.
C8_CascadeRemovesSubtree ==
    \A d \in departments, modeStr \in {"", "cascade"}, reassignToStr \in ReassignToStrs :
        LET r == deleteDepartment(Store, Itoa(d.id), modeStr, reassignToStr, "none")
            subtree == {d.id} \cup Descendants(departments, d.id)
        IN  r.status = 204 =>
              /\ r.s.departments = {x \in departments : x.id \notin subtree}
              /\ r.s.employees = {e \in employees : e.department_id \notin subtree}

\* C8 witness: a DELETE has succeeded, rows have gone, and a department with
\* an employee is left
C8_Witness ==
    /\ last.op = "deleteDepartment" /\ last.status = 204 /\ last.tx = "committed"
    /\ Cardinality(departments) < deptSeq - 1
    /\ \E e \in employees : e.department_id \in DeptIds(departments)

C10_ReassignAllOrNothing ==
    \A idStr \in IdStrs, reassignToStr \in ReassignToStrs :
      \A fail \in DeleteFails(idStr, "reassign", reassignToStr) :
        LET r == deleteDepartment(Store, idStr, "reassign", reassignToStr, fail)
        IN  /\ fail # "none" => r.status >= 400
            /\ r.status # 204 => r.s = Store

\* C10 witness: a reassign DELETE of a department holding an employee has
\* failed inside its transaction and been rolled back
C10_Witness ==
    /\ last.op = "deleteDepartment" /\ last.status = 500 /\ last.tx = "rolledback"
    /\ last.error = "full_name cannot be empty"
    /\ employees # {}

\* C11: when a reassign DELETE of D with target T and a DELETE of T have
\* both finished, in whatever order their store calls were made, every
\* employee's department_id and every department's parent_id names a
\* department that exists.
C11_NoOrphansAfterConcurrentDeletes ==
    (\A p \in {1, 2} : inflight.procs[p].pc = "done") =>
        /\ \A e \in employees : e.department_id \in DeptIds(departments)
        /\ \A d \in departments :
              d.parent_id # Nil => Deref(d.parent_id) \in DeptIds(departments)

\* C11 witness: both have finished; the reassign found its target and then
\* failed, the target has been deleted by the other request, and D and an
\* employee are still stored
C11_Witness ==
    /\ \A p \in {1, 2} : inflight.procs[p].pc = "done"
    /\ inflight.procs[1].status = 500
    /\ inflight.procs[2].status = 204
    /\ inflight.procs[1].to \notin DeptIds(departments)
    /\ inflight.procs[1].id \in DeptIds(departments)
    /\ employees # {}

\* C12: a DELETE whose mode is neither cascade nor reassign (nor absent)
\* answers 400 without reading the store or opening a transaction: the
\* answer is 400 whether or not the department exists, and no transaction
\* is left behind.
C12_InvalidModeBeforeStore ==
    \A i \in IdInputs, reassignToStr \in {<<>>, Itoa(0)} :
        LET r == deleteDepartment(Store, Itoa(i), "purge", reassignToStr, "none")
        IN  r.status = 400 /\ r.tx = "none"

\* the nodes of a rendered tree
RECURSIVE ResponseNodes(_)
ResponseNodes(node) ==
    {node} \cup UNION {ResponseNodes(node.children[i]) : i \in 1..Len(node.children)}

\* the <<parent, child>> nestings of a rendered tree
ResponseEdges(node) ==
    UNION {{<<n.id, n.children[i].id>> : i \in 1..Len(n.children)} :
           n \in ResponseNodes(node)}

\* the departments at distance 1..depth below the departments `ids`
RECURSIVE DescendantsWithin(_, _, _)
DescendantsWithin(D, ids, depth) ==
    IF depth = 0 THEN {}
    ELSE LET kids == {x.id : x \in {y \in D : y.parent_id # Nil /\ Deref(y.parent_id) \in ids}}
         IN  kids \cup DescendantsWithin(D, kids, depth - 1)

\* C13: a GET of an existing root department R with depth d in 1..5 answers
\* 200 with a tree whose nodes are R and exactly the descendants of R at
\* distance 1..d, each nested under its parent.
C13_GetReturnsSubtree ==
    \A d \in {x \in departments : x.parent_id = Nil}, depth \in 1..5 :
      \A order \in GetOrders(Store, d.id, depth) :
        LET r == getDepartment(Store, Itoa(d.id), Itoa(depth), "false", "", order, <<>>, "none")
            within == DescendantsWithin(departments, {d.id}, depth)
        IN  /\ r.status = 200
            /\ r.body.id = d.id
            /\ {n.id : n \in ResponseNodes(r.body)} = {d.id} \cup within
            /\ ResponseEdges(r.body) =
                 {<<Deref(x.parent_id), x.id>> : x \in {y \in departments : y.id \in within}}

\* C14: in the answer to a GET with include_employees=true every rendered
\* node carries exactly the employees of its department, in the order of the
\* sort key; with include_employees=false no node carries employees.
C14_GetEmployeesPerNode ==
    \A d \in departments, depth \in 1..5, sortStr \in {"", "full_name", "created_at"} :
      LET sortBy == IF sortStr = "" THEN "full_name" ELSE sortStr
      IN  \A order \in GetOrders(Store, d.id, depth) :
          \A eorder \in EmployeeOrders(employees, Range(order), sortBy) :
            LET with == getDepartment(Store, Itoa(d.id), Itoa(depth), "true", sortStr,
                                      order, eorder, "none")
                without == getDepartment(Store, Itoa(d.id), Itoa(depth), "false", sortStr,
                                         order, eorder, "none")
            IN  /\ with.status = 200 /\ without.status = 200
                /\ \A n \in ResponseNodes(with.body) :
                      n.employees \in EmployeeOrders(employees, {n.id}, sortBy)
                /\ \A n \in ResponseNodes(without.body) : n.employees = <<>>

\* the store calls of each handler that a failure can be injected at
CreateDepartmentFails == {"parent", "count", "write"}

CreateEmployeeFails == {"first", "write"}

UpdateDepartmentFails == {"first", "parent", "cycle", "count", "write"}

\* C15: in every handler a store call that meets an unexpected store failure
\* (the failure changes the outcome of the request) is answered with 500.
C15_StoreFailureIs500 ==
    /\ \A body \in DepartmentBodies, fail \in CreateDepartmentFails :
          LET r == createDepartment(Store, body, fail)
          IN  r # createDepartment(Store, body, "none") => r.status = 500
    /\ \A idStr \in IdStrs, body \in EmployeeBodies, fail \in CreateEmployeeFails :
          LET r == createEmployee(Store, idStr, body, fail)
          IN  r # createEmployee(Store, idStr, body, "none") => r.status = 500
    /\ \A idStr \in IdStrs, body \in DepartmentBodies, fail \in UpdateDepartmentFails :
          LET r == updateDepartment(Store, idStr, body, fail)
          IN  r # updateDepartment(Store, idStr, body, "none") => r.status = 500
    /\ \A idStr \in IdStrs, modeStr \in ModeStrs :
        \A reassignToStr \in ReassignToStrsFor(modeStr) :
        \A fail \in DeleteFails(idStr, modeStr, reassignToStr) :
          LET r == deleteDepartment(Store, idStr, modeStr, reassignToStr, fail)
          IN  r # deleteDepartment(Store, idStr, modeStr, reassignToStr, "none")
                  => r.status = 500
    /\ \A d \in departments, fail \in {"first", "children", "employees"} :
          getDepartment(Store, Itoa(d.id), <<>>, "", "", <<d.id>>, <<>>, fail).status = 500

\* a name member whose trimmed value is not 1..200 characters long
BadName(j) == Len(TrimSpace(DecodeString(j))) \notin 1..MaxNameLen

\* C16: in every mutation handler a request with malformed or invalid input
\* (undecodable body, empty or over-long name, full_name or position, bad
\* path or query parameter) answers 400 and leaves the store unchanged,
\* whichever departments exist.
C16_InvalidInputIs400 ==
    /\ \A body \in DepartmentBodies :
          (~body.wellFormed \/ BadName(body.name)) =>
              LET r == createDepartment(Store, body, "none")
              IN  r.status = 400 /\ r.s = Store
    /\ \A idStr \in IdStrs, body \in EmployeeBodies :
          (~Atoi(idStr).ok \/ ~body.wellFormed
              \/ BadName(body.full_name) \/ BadName(body.position)) =>
              LET r == createEmployee(Store, idStr, body, "none")
              IN  r.status = 400 /\ r.s = Store
    /\ \A idStr \in IdStrs, body \in DepartmentBodies :
          (~Atoi(idStr).ok \/ ~body.wellFormed
              \/ (body.name.kind = "string" /\ BadName(body.name))) =>
              LET r == updateDepartment(Store, idStr, body, "none")
              IN  r.status = 400 /\ r.s = Store
    /\ \A idStr \in IdStrs, modeStr \in ModeStrs :
        \A reassignToStr \in ReassignToStrsFor(modeStr) :
          (\/ ~Atoi(idStr).ok
           \/ modeStr \notin {"", "cascade", "reassign"}
           \/ (reassignToStr # <<>> /\ ~Atoi(reassignToStr).ok)
           \/ (modeStr = "reassign" /\ reassignToStr = <<>>)) =>
              LET r == deleteDepartment(Store, idStr, modeStr, reassignToStr, "none")
              IN  r.status = 400 /\ r.s = Store

\* C17: a create-department or create-employee request answered 201 returns
\* and stores the name, full_name and position of the request with the
\* surrounding whitespace removed, each 1..200 long; a request with a name,
\* full_name or position whose trimmed value is empty or longer than 200 is
\* answered 400 and stores no row.
C17_CreateTrimsAndBounds ==
    /\ \A body \in {b \in DepartmentBodies : b.wellFormed} :
          LET r == createDepartment(Store, body, "none")
          IN  /\ r.status = 201 =>
                    /\ r.body.name = TrimSpace(DecodeString(body.name))
                    /\ Len(r.body.name) \in 1..MaxNameLen
                    /\ r.s.departments = departments \cup {r.body}
                    /\ r.body \notin departments
              /\ BadName(body.name) => r.status = 400 /\ r.s = Store
    /\ \A idStr \in IdStrs, body \in {b \in EmployeeBodies : b.wellFormed} :
          LET r == createEmployee(Store, idStr, body, "none")
          IN  /\ r.status = 201 =>
                    /\ r.body.full_name = TrimSpace(DecodeString(body.full_name))
                    /\ r.body.position = TrimSpace(DecodeString(body.position))
                    /\ Len(r.body.full_name) \in 1..MaxNameLen
                    /\ Len(r.body.position) \in 1..MaxNameLen
                    /\ r.s.employees = employees \cup {r.body}
                    /\ r.body \notin employees
              /\ (BadName(body.full_name) \/ BadName(body.position)) =>
                    r.status = 400 /\ r.s = Store

\* C18: CheckCycle terminates on every departments table, one whose parent
\* relation has a cycle included, and queries the children of each
\* department at most once in one call.
C18_CheckCycleTerminates ==
    /\ <>(inflight.pc = "done")
    /\ [](\A i \in DOMAIN inflight.plucked : inflight.plucked[i] <= 1)

\* C18 witness: a call on a department that lies on a cycle of three has
\* returned after visiting the whole cycle
C18_Witness ==
    /\ inflight.pc = "done" /\ inflight.err = NoErr
    /\ inflight.id \in Ancestors(departments, inflight.id)
    /\ Cardinality(inflight.visited) = 3
    /\ \A i \in inflight.visited : inflight.plucked[i] = 1

\* C19: on an acyclic departments table CheckCycle(D, P) returns an error
\* exactly when P is D or P is reached from D by parent-to-child edges; it
\* returns no error when P is null or lies outside the subtree of D.
C19_CheckCycleExact ==
    (inflight.pc = "done" /\ \A d \in departments : d.id \notin Ancestors(departments, d.id))
        => (inflight.err # NoErr <=>
               /\ inflight.newParentID # Nil
               /\ Deref(inflight.newParentID) \in
                     {inflight.id} \cup Descendants(departments, inflight.id))

\* C19 witness: on an acyclic table a call has refused a grandchild as the
\* new parent
C19_Witness ==
    /\ inflight.pc = "done"
    /\ \A d \in departments : d.id \notin Ancestors(departments, d.id)
    /\ inflight.err = "cannot move department inside its own subtree"
    /\ Deref(inflight.newParentID) \in
          Descendants(departments, inflight.id) \ DirectChildren(departments, inflight.id)

\* C20: no DELETE request returns with the transaction it opened still open:
\* on every path the transaction is committed or rolled back.
C20_TransactionClosed ==
    \A idStr \in IdStrs, modeStr \in ModeStrs :
      \A reassignToStr \in ReassignToStrsFor(modeStr) :
      \A fail \in DeleteFails(idStr, modeStr, reassignToStr) :
        deleteDepartment(Store, idStr, modeStr, reassignToStr, fail).tx # "open"

\* C21: when two PATCH reparent requests on an acyclic tree have both
\* finished, in whatever order their store calls were made, the parent
\* relation is still acyclic; PATCH A with parent B and PATCH B with parent
\* A are not both answered 200.
C21_ConcurrentReparentAcyclic ==
    (\A p \in {1, 2} : inflight.procs[p].pc = "done") =>
        /\ \A d \in departments : d.id \notin Ancestors(departments, d.id)
        /\ LET a == inflight.procs[1]
               b == inflight.procs[2]
           IN  (a.id # b.id /\ a.req.ParentID = Ptr(b.id) /\ b.req.ParentID = Ptr(a.id))
                   => ~(a.status = 200 /\ b.status = 200)

====
